---- MODULE Spec2Model ----
(***************************************************************************)
(* Content Entry Store: the CMS query and mutation layer                   *)
(* (getCmsCollection, getCmsEntry, getCmsEntryById, createCmsEntry,        *)
(* updateCmsEntry, deleteCmsEntry) over the entry table and the            *)
(* entry-media association table.                                          *)
(*                                                                         *)
(* Every store statement (one awaited db call) is one atomic step; a call  *)
(* of a mutation is a sequence of such steps, and the steps of concurrent  *)
(* callers interleave freely.                                              *)
(***************************************************************************)
EXTENDS Integers, Sequences, FiniteSets, TLC

\* ------------------------------------------------------------------ bounds

\* Entries that createCmsEntry may insert on top of the initial store.
MaxCreates == 2
\* Highest value of the store's clock (seconds since the epoch, rebased).
MaxClock == 2
\* Calls the callers may issue in all.
MaxCalls == 2

\* ------------------------------------------------------------- input sets

Callers == {"c1", "c2"}

\* A value the caller did not supply (JavaScript undefined).
Unset == "undefined"
\* A nullable timestamp column holding NULL.
NullTime == 0
\* A numeric argument (limit, offset) the caller did not supply.
NoNumber == -1

CMS_ENTRY_STATUS == {"draft", "published", "archived"}
\* CmsEntryStatus: the stored statuses plus the query-only 'all'.
CmsEntryStatus == CMS_ENTRY_STATUS \cup {"all"}

\* The static collection configuration as shipped: key |-> definition.
cmsConfig == [blog |-> [slug |-> "blog"]]
\* The configuration with a second collection defined, one whose key is
\* not its slug: the code is generic in the configuration, and with one
\* collection alone its collection filter and its key-to-slug resolution
\* have nothing to tell apart.
cmsConfigTwo == [blog |-> [slug |-> "blog"], pages |-> [slug |-> "page"]]
\* A collection key no configuration defines.
UnknownKey == "news"
\* A key the configuration does not define and every object inherits.
InheritedKey == "constructor"

Slugs == {"a", "b"}

VARIABLES
    registry,    \* the collection configuration loaded at startup
    entries,     \* rows of the entry table
    entryMedia,  \* rows of the entry-media association table
    nextId,      \* ids handed out so far (ids are generated, never reused)
    clock,       \* the store's clock at its last reading
    pc,          \* pc[c]: where caller c stands in its call
    call,        \* call[c]: the operation, its arguments and its locals
    ret,         \* ret[c]: what the finished call returned or threw
    ncalls,      \* ncalls[c]: calls c has issued so far
    memo         \* the request's cache() entries of the memoised queries

vars == <<registry, entries, entryMedia, nextId, clock, pc, call, ret, ncalls, memo>>

\* ------------------------------------------------------------ store rows

MaxId == MaxCreates + 1
Ids == 1..MaxId

\* A row of the entry table as createCmsEntry's insert produces it: the
\* generated id, the supplied columns, and the column defaults.
EntryRow(id, collection, slug, title, content, fields, status, createdBy, now) ==
    [id |-> id, collection |-> collection, slug |-> slug, title |-> title,
     content |-> content, fields |-> fields, status |-> status,
     createdBy |-> createdBy, createdAt |-> now, updatedAt |-> now,
     publishedAt |-> NullTime]

\* A row of the entry-media association table.
MediaRow(id, entryId, mediaId, position) ==
    [id |-> id, entryId |-> entryId, mediaId |-> mediaId, position |-> position]

\* The store before the first call: empty, or holding one published entry
\* with two media associations attached by the media subsystem, or holding
\* that entry and a draft with an association of its own.
SeedEntry == EntryRow(1, "blog", "a", "T1", "doc1", "f1", "published", "u1", 1)
SeedMedia == {MediaRow("em1", 1, "m1", 2), MediaRow("em2", 1, "m2", 1)}
SeedDraft == EntryRow(2, "blog", "b", "T2", "doc2", "f2", "draft", "u2", 1)
SeedDraftMedia == {MediaRow("em3", 2, "m1", 1)}

\* ------------------------------------------------------- store statements

\* eq(cmsEntryTable.collection, c) AND eq(cmsEntryTable.slug, s)
WhereCollectionSlug(rows, collection, slug) ==
    {e \in rows : e.collection = collection /\ e.slug = slug}

\* eq(cmsEntryTable.id, id)
WhereId(rows, id) == {e \in rows : e.id = id}

\* eq(cmsEntryMediaTable.entryId, id)
WhereEntryId(rows, id) == {m \in rows : m.entryId = id}

\* findFirst: any one of the matching rows (the statement has no ORDER BY),
\* or nothing when none matches.  NoRow stands for undefined.
NoRow == [id |-> 0]
\* A faulty variant: with no row matching, some stored row is produced.
FindFirstUnfiltered(matching) ==
    IF matching # {} THEN matching ELSE IF entries = {} THEN {NoRow} ELSE entries
FindFirst(matching) == IF matching = {} THEN {NoRow} ELSE matching

\* A faulty variant: the test that never sees the row.
NeverFound(row) == FALSE
\* if (existingEntry): whether findFirst produced a row.
Found(row) == row.id # 0

\* The index the store keeps on (collection, slug): a plain index, so an
\* insert or update is never rejected for repeating a pair.
IndexRejects(rows, collection, slug, selfId) == FALSE

\* The collection configuration lookup: cmsConfig.collections[key].
\* The properties every object literal inherits from Object.prototype
\* (its twelve own property names): a lookup by key on
\* cmsConfig.collections finds them too, as values that are truthy and have
\* no slug.
InheritedKeys ==
    {"constructor", "__defineGetter__", "__defineSetter__", "hasOwnProperty",
     "__lookupGetter__", "__lookupSetter__", "isPrototypeOf",
     "propertyIsEnumerable", "toString", "valueOf", "__proto__", "toLocaleString"}
\* if (!collection) on cmsConfig.collections[collectionSlug]
HasCollection(key) == key \in DOMAIN registry \/ key \in InheritedKeys
\* cmsConfig.collections[collectionSlug]
ResolveCollection(key) ==
    IF key \in DOMAIN registry THEN registry[key] ELSE [slug |-> Unset]

\* ------------------------------------------------------- calls and results

NoCall == [op |-> "none", changes |-> 0]
NoRet == [kind |-> "none", error |-> "", rows |-> << >>]
Thrown(err) == [kind |-> "thrown", error |-> err, rows |-> << >>]
Returned(kind, rows) == [kind |-> kind, error |-> "", rows |-> rows]

\* A result object: the row plus the relations the query asked for.
Result(row, rels, media) == [row |-> row, with |-> rels, entryMedia |-> media]
Plain(row) == Result(row, {}, << >>)

Finish(c, r) ==
    /\ pc' = [pc EXCEPT ![c] = "done"]
    /\ ret' = [ret EXCEPT ![c] = r]

Goto(c, label) ==
    /\ pc' = [pc EXCEPT ![c] = label]
    /\ ret' = [ret EXCEPT ![c] = NoRet]

\* A caller issues its next call once the previous one has ended.
CallsIssued == ncalls["c1"] + ncalls["c2"]
\* The callers are interchangeable: the one that calls first is named c1.
CanCall(c) ==
    /\ pc[c] \in {"idle", "done"}
    /\ CallsIssued < MaxCalls
    /\ c = "c1" \/ ncalls["c1"] > 0

Begin(c, op, args, existing) ==
    /\ call' = [call EXCEPT ![c] = [op |-> op, args |-> args, existing |-> existing,
                                    changes |-> 0]]
    /\ ncalls' = [ncalls EXCEPT ![c] = @ + 1]

TypeOK ==
    /\ nextId \in 1..(MaxId + 1)
    /\ clock \in 1..MaxClock
    /\ pc \in [Callers -> {"idle", "create_insert", "update_conflict", "update_set",
                           "delete_media", "delete_entry", "memo_read",
                           "memo_wait", "done"}]
    /\ \A e \in entries : e.id \in Ids /\ e.status \in CmsEntryStatus

InitStore ==
    /\ \/ entries = {} /\ entryMedia = {} /\ nextId = 1
       \/ entries = {SeedEntry} /\ entryMedia = SeedMedia /\ nextId = 2
       \/ /\ entries = {SeedEntry, SeedDraft}
          /\ entryMedia = SeedMedia \cup SeedDraftMedia
          /\ nextId = 3
    /\ clock = 1
    /\ pc = [c \in Callers |-> "idle"]
    /\ call = [c \in Callers |-> NoCall]
    /\ ret = [c \in Callers |-> NoRet]
    /\ ncalls = [c \in Callers |-> 0]
    /\ memo = {}

Init == registry = cmsConfig /\ InitStore

\* The same program started under the two-collection configuration.
InitTwo == registry = cmsConfigTwo /\ InitStore


\* ----------------------------------------------------------------- inputs

Payloads ==
    {[title |-> "T1", content |-> "doc1", fields |-> "f1", createdBy |-> "u1"],
     [title |-> "T2", content |-> "doc2", fields |-> "f2", createdBy |-> "u2"]}

\* CreateCmsEntryParams: a configured collection with either payload, with
\* and without a status, and one call naming a collection not configured.
\* The parameter types bind the compiler only: the functions are exported
\* server functions and take what they are sent, so the presets include a
\* key the configuration inherits and the status 'all'.
CreateArg(k, s, p, st) ==
    [collectionSlug |-> k, slug |-> s, title |-> p.title, content |-> p.content,
     fields |-> p.fields, status |-> st, createdBy |-> p.createdBy]

CreateArgs(K) ==
    {CreateArg(k, s, p, st) :
        k \in K, s \in Slugs, p \in Payloads, st \in {Unset, "published"}}
    \cup {CreateArg("blog", "b", p, "archived") : p \in Payloads}
    \cup {CreateArg(UnknownKey, "a", p, "draft") : p \in Payloads}
    \cup {CreateArg(InheritedKey, "a", p, "draft") :
            p \in {CHOOSE q \in Payloads : q.title = "T1"}}
    \cup {CreateArg("blog", "b", p, "all") :
            p \in {CHOOSE q \in Payloads : q.title = "T1"}}
    \cup {CreateArg("blog", "", p, Unset) : p \in {CHOOSE q \in Payloads : q.title = "T1"}}

\* UpdateCmsEntryParams: every attribute but id is optional; the presets
\* include the call that supplies nothing, the one whose slug is the empty
\* string and the one whose status is 'all'.
UpdateArg(id, slug, title, content, fields, status) ==
    [id |-> id, slug |-> slug, title |-> title, content |-> content,
     fields |-> fields, status |-> status]

UpdateArgs ==
    {UpdateArg(id, s, Unset, Unset, Unset, Unset) : id \in Ids, s \in Slugs}
    \cup {UpdateArg(id, Unset, "T3", Unset, Unset, Unset) : id \in Ids}
    \cup {UpdateArg(id, Unset, Unset, "doc3", "f3", Unset) : id \in Ids}
    \cup {UpdateArg(id, Unset, Unset, Unset, Unset, st) :
            id \in Ids, st \in CMS_ENTRY_STATUS}
    \cup {UpdateArg(id, "b", "T3", Unset, Unset, "archived") : id \in Ids}
    \cup {UpdateArg(id, Unset, Unset, Unset, Unset, Unset) : id \in Ids}
    \cup {UpdateArg(id, "", Unset, Unset, Unset, Unset) : id \in Ids}
    \cup {UpdateArg(id, Unset, Unset, Unset, Unset, "all") : id \in Ids}

\* DeleteCmsEntryParams
DeleteArgs == [id : Ids]

\* --------------------------------------------------------- createCmsEntry

\* A faulty variant: the query default as the default.
CreateStatusPublished(args) == IF args.status = Unset THEN "published" ELSE args.status
\* status = CMS_ENTRY_STATUS.DRAFT when the caller passes none.
CreateStatus(args) == IF args.status = Unset THEN "draft" ELSE args.status

\* A faulty variant: the row stores the key the caller passed.
InsertedRowKeyed(args, id, now) ==
    EntryRow(id, args.collectionSlug, args.slug, args.title,
             args.content, args.fields, CreateStatus(args), args.createdBy, now)

\* collection is declared notNull() and has no default: a row whose
\* collection was given as undefined is inserted with NULL and rejected.
NotNullRejects(row) == row.collection = Unset

\* The row db.insert(cmsEntryTable).values({...}).returning() yields.
InsertedRow(args, id, now) ==
    EntryRow(id, ResolveCollection(args.collectionSlug).slug, args.slug, args.title,
             args.content, args.fields, CreateStatus(args), args.createdBy, now)

\* The call up to and including its first store statement: the collection
\* lookup, then the findFirst on (collection, slug).
CreateCmsEntry(c, args) ==
    /\ CanCall(c)
    /\ nextId + Cardinality({d \in Callers : pc[d] = "create_insert"}) <= MaxId
    /\ IF ~HasCollection(args.collectionSlug)
       THEN /\ Begin(c, "create", args, NoRow)
            /\ Finish(c, Thrown("CollectionNotFound"))
       ELSE \/ \E existingEntry \in FindFirst(WhereCollectionSlug(entries,
                       ResolveCollection(args.collectionSlug).slug, args.slug)) :
                   /\ Begin(c, "create", args, existingEntry)
                   /\ IF Found(existingEntry)
                      THEN Finish(c, Thrown("DuplicateSlug"))
                      ELSE Goto(c, "create_insert")
            \/ /\ Begin(c, "create", args, NoRow)
               /\ Finish(c, Thrown("StoreFailure"))
    /\ UNCHANGED <<registry, memo, entries, entryMedia, nextId, clock>>

\* The insert statement.  The store reads its clock for the timestamp
\* defaults: no earlier than its previous reading.
CreateInsert(c) ==
    /\ pc[c] = "create_insert"
    /\ \E now \in clock..MaxClock :
        LET args == call[c].args
            newEntry == InsertedRow(args, nextId, now)
        IN /\ clock' = now
           /\ IF NotNullRejects(newEntry)
              THEN /\ Finish(c, Thrown("NotNullConstraintViolation"))
                   /\ UNCHANGED <<entries, nextId>>
              ELSE IF IndexRejects(entries, newEntry.collection, newEntry.slug,
                                   newEntry.id)
              THEN /\ Finish(c, Thrown("UniqueConstraintViolation"))
                   /\ UNCHANGED <<registry, entries, nextId>>
              ELSE /\ entries' = entries \cup {newEntry}
                   /\ nextId' = nextId + 1
                   /\ Finish(c, Returned("entry", <<Plain(newEntry)>>))
    /\ UNCHANGED <<registry, memo, entryMedia, call, ncalls>>

\* --------------------------------------------------------- updateCmsEntry

\* A faulty variant: the guard without its comparison to the entry's slug.
SlugSupplied(args, existingEntry) == args.slug # Unset /\ args.slug # ""

\* slug && slug !== existingEntry.slug
SlugIsChanging(args, existingEntry) ==
    args.slug # Unset /\ args.slug # "" /\ args.slug # existingEntry.slug

\* A faulty variant: every status change stamps publishedAt.
SetColumnsStamping(row, args) ==
    [row EXCEPT
        !.slug = IF args.slug = Unset THEN @ ELSE args.slug,
        !.title = IF args.title = Unset THEN @ ELSE args.title,
        !.content = IF args.content = Unset THEN @ ELSE args.content,
        !.fields = IF args.fields = Unset THEN @ ELSE args.fields,
        !.status = IF args.status = Unset THEN @ ELSE args.status,
        !.publishedAt = IF args.status = Unset THEN @ ELSE row.createdAt]

\* A faulty variant: the statement writes all five columns, a key the
\* caller left out included.
SetColumnsAll(row, args) ==
    [row EXCEPT !.slug = args.slug, !.title = args.title, !.content = args.content,
                !.fields = args.fields, !.status = args.status]

\* .set({slug, title, content, fields, status}): a key given as undefined is
\* left out of the statement, so the column keeps its value.
SetColumns(row, args) ==
    [row EXCEPT
        !.slug = IF args.slug = Unset THEN @ ELSE args.slug,
        !.title = IF args.title = Unset THEN @ ELSE args.title,
        !.content = IF args.content = Unset THEN @ ELSE args.content,
        !.fields = IF args.fields = Unset THEN @ ELSE args.fields,
        !.status = IF args.status = Unset THEN @ ELSE args.status]

\* .set() with every key undefined: the query builder has no column left to
\* write and throws ('No values to set') before a statement is issued.
NoValuesToSet(args) ==
    /\ args.slug = Unset /\ args.title = Unset /\ args.content = Unset
    /\ args.fields = Unset /\ args.status = Unset

\* The call up to and including the findFirst on id.
UpdateCmsEntry(c, args) ==
    /\ CanCall(c)
    /\ \/ \E existingEntry \in FindFirst(WhereId(entries, args.id)) :
              /\ Begin(c, "update", args, existingEntry)
              /\ IF ~Found(existingEntry)
                 THEN Finish(c, Thrown("EntryNotFound"))
                 ELSE IF SlugIsChanging(args, existingEntry)
                      THEN Goto(c, "update_conflict")
                      ELSE IF NoValuesToSet(args)
                           THEN Finish(c, Thrown("NoValuesToSet"))
                           ELSE Goto(c, "update_set")
       \/ /\ Begin(c, "update", args, NoRow)
          /\ Finish(c, Thrown("StoreFailure"))
    /\ UNCHANGED <<registry, memo, entries, entryMedia, nextId, clock>>

\* The findFirst on (existingEntry.collection, slug).
UpdateConflict(c) ==
    /\ pc[c] = "update_conflict"
    /\ \E conflictingEntry \in FindFirst(WhereCollectionSlug(entries,
                call[c].existing.collection, call[c].args.slug)) :
           IF Found(conflictingEntry)
           THEN Finish(c, Thrown("DuplicateSlug"))
           ELSE Goto(c, "update_set")
    /\ UNCHANGED <<registry, memo, entries, entryMedia, nextId, clock, call, ncalls>>

\* A faulty variant: the update statement without its where clause.
UpdateSetUnfiltered(c) ==
    /\ pc[c] = "update_set"
    /\ LET args == call[c].args
           hit == entries
           updated == {SetColumns(e, args) : e \in hit}
       IN IF \E u \in updated : IndexRejects(entries, u.collection, u.slug, u.id)
          THEN /\ Finish(c, Thrown("UniqueConstraintViolation"))
               /\ UNCHANGED entries
          ELSE /\ entries' = (entries \ hit) \cup updated
               /\ IF updated = {}
                  THEN Finish(c, Returned("null", << >>))
                  ELSE \E u \in updated : Finish(c, Returned("entry", <<Plain(u)>>))
    /\ UNCHANGED <<registry, memo, entryMedia, nextId, clock, call, ncalls>>

\* The update statement with .returning(); the call returns
\* updatedEntry || null.
UpdateSet(c) ==
    /\ pc[c] = "update_set"
    /\ LET args == call[c].args
           hit == WhereId(entries, args.id)
           updated == {SetColumns(e, args) : e \in hit}
       IN IF \E u \in updated : IndexRejects(entries, u.collection, u.slug, u.id)
          THEN /\ Finish(c, Thrown("UniqueConstraintViolation"))
               /\ UNCHANGED entries
          ELSE /\ entries' = (entries \ hit) \cup updated
               /\ IF updated = {}
                  THEN Finish(c, Returned("null", << >>))
                  ELSE \E u \in updated : Finish(c, Returned("entry", <<Plain(u)>>))
    /\ UNCHANGED <<registry, memo, entryMedia, nextId, clock, call, ncalls>>

\* --------------------------------------------------------- deleteCmsEntry

\* The call up to and including the findFirst on id.
DeleteCmsEntry(c, args) ==
    /\ CanCall(c)
    /\ \/ \E existingEntry \in FindFirst(WhereId(entries, args.id)) :
              /\ Begin(c, "delete", args, existingEntry)
              /\ IF ~Found(existingEntry)
                 THEN Finish(c, Thrown("EntryNotFound"))
                 ELSE Goto(c, "delete_media")
       \/ /\ Begin(c, "delete", args, NoRow)
          /\ Finish(c, Thrown("StoreFailure"))
    /\ UNCHANGED <<registry, memo, entries, entryMedia, nextId, clock>>

\* A faulty variant: the associations are left in place.
DeleteMediaSkipped(c) ==
    /\ pc[c] = "delete_media"
    /\ Goto(c, "delete_entry")
    /\ UNCHANGED <<registry, memo, entries, entryMedia, nextId, clock, call, ncalls>>

\* A faulty variant: the delete without its where clause.
DeleteMediaAll(c) ==
    /\ pc[c] = "delete_media"
    /\ entryMedia' = {}
    /\ call' = [call EXCEPT ![c].changes = Cardinality(entryMedia)]
    /\ Goto(c, "delete_entry")
    /\ UNCHANGED <<registry, memo, entries, nextId, clock, ncalls>>

\* db.delete(cmsEntryMediaTable).where(eq(entryId, id)); the call keeps
\* the number of rows the statement removed.
DeleteMedia(c) ==
    /\ pc[c] = "delete_media"
    /\ entryMedia' = entryMedia \ WhereEntryId(entryMedia, call[c].args.id)
    /\ call' = [call EXCEPT ![c].changes =
                    Cardinality(WhereEntryId(entryMedia, call[c].args.id))]
    /\ Goto(c, "delete_entry")
    /\ UNCHANGED <<registry, memo, entries, nextId, clock, ncalls>>

\* db.delete(cmsEntryTable).where(eq(id, id))
DeleteEntry(c) ==
    /\ pc[c] = "delete_entry"
    /\ entries' = entries \ WhereId(entries, call[c].args.id)
    /\ Finish(c, Returned("void", << >>))
    /\ UNCHANGED <<registry, memo, entryMedia, nextId, clock, call, ncalls>>

\* ---------------------------------------------------------------- queries

\* CmsIncludeRelations; an omitted object asks for no relation.
NoRelations == [createdByUser |-> FALSE, media |-> FALSE]
OnlyMedia == [createdByUser |-> FALSE, media |-> TRUE]
BothRelations == [createdByUser |-> TRUE, media |-> TRUE]

\* The 'with' clause: the relations the query is extended by.
BuildCmsRelationsQuery(includeRelations) ==
    (IF includeRelations.createdByUser THEN {"createdByUser"} ELSE {})
    \cup (IF includeRelations.media THEN {"entryMedia"} ELSE {})

\* The rows of S with the greatest createdAt, the least createdAt, the
\* least position.
Newest(S) == {x \in S : \A y \in S : x.createdAt >= y.createdAt}
Oldest(S) == {x \in S : \A y \in S : x.createdAt <= y.createdAt}
Lowest(S) == {x \in S : \A y \in S : x.position <= y.position}

\* A faulty variant: oldest first.
RECURSIVE OrderByCreatedAtAsc(_)
OrderByCreatedAtAsc(S) ==
    IF S = {} THEN {<< >>}
    ELSE UNION {{<<x>> \o rest : rest \in OrderByCreatedAtAsc(S \ {x})} : x \in Oldest(S)}

\* orderBy: [desc(cmsEntryTable.createdAt)]: the sequences the rows of S
\* can come in, newest first; rows of equal createdAt come in whatever order
\* the store produces them.
RECURSIVE OrderByCreatedAtDesc(_)
OrderByCreatedAtDesc(S) ==
    IF S = {} THEN {<< >>}
    ELSE UNION {{<<x>> \o rest : rest \in OrderByCreatedAtDesc(S \ {x})} : x \in Newest(S)}

\* A faulty variant: highest position first.
RECURSIVE OrderByPositionDesc(_)
OrderByPositionDesc(S) ==
    IF S = {} THEN {<< >>}
    ELSE UNION {{<<x>> \o rest : rest \in OrderByPositionDesc(S \ {x})} :
                   x \in {y \in S : \A z \in S : y.position >= z.position}}

\* orderBy: [asc(fields.position)] of the entryMedia relation.
RECURSIVE OrderByPositionAsc(_)
OrderByPositionAsc(S) ==
    IF S = {} THEN {<< >>}
    ELSE UNION {{<<x>> \o rest : rest \in OrderByPositionAsc(S \ {x})} : x \in Lowest(S)}

\* limit and offset as the store applies them.
Slice(seq, limit, offset) ==
    LET from == IF offset = NoNumber THEN 0 ELSE offset
        upto == IF limit = NoNumber THEN Len(seq)
                ELSE IF from + limit < Len(seq) THEN from + limit ELSE Len(seq)
    IN SubSeq(seq, from + 1, upto)

\* The result objects a row can be returned as under a 'with' clause.
WithRelations(row, rels, media) ==
    IF "entryMedia" \in rels
    THEN {Result(row, rels, m) : m \in OrderByPositionAsc(WhereEntryId(media, row.id))}
    ELSE {Result(row, rels, << >>)}

\* status = CMS_ENTRY_STATUS.PUBLISHED when the caller passes none.
QueryStatus(status) == IF status = Unset THEN "published" ELSE status

\* A faulty variant: the where clause without its collection condition.
WhereStatusOnly(rows, collection, status) ==
    {e \in rows : status = "all" \/ e.status = status}

\* and(eq(collection, slug) [, eq(status, status) unless 'all'])
WhereCollectionStatus(rows, collection, status) ==
    {e \in rows : e.collection = collection /\ (status = "all" \/ e.status = status)}

\* The lists of result objects a page of rows can be returned as.
RECURSIVE Materialize(_, _, _)
Materialize(page, rels, media) ==
    IF page = << >> THEN {<< >>}
    ELSE {<<r>> \o rest : r \in WithRelations(Head(page), rels, media),
                          rest \in Materialize(Tail(page), rels, media)}

\* The lists findMany can return for getCmsCollection's query.
GetCmsCollectionResults(rows, media, args) ==
    LET where == WhereCollectionStatus(rows,
                     ResolveCollection(args.collectionSlug).slug,
                     QueryStatus(args.status))
        rels == BuildCmsRelationsQuery(args.includeRelations)
    IN UNION {Materialize(Slice(o, args.limit, args.offset), rels, media) :
                 o \in OrderByCreatedAtDesc(where)}

\* The result objects findFirst can return for getCmsEntry's query.
GetCmsEntryResults(rows, media, args) ==
    LET where == WhereCollectionStatus(
                     WhereCollectionSlug(rows,
                         ResolveCollection(args.collectionSlug).slug, args.slug),
                     ResolveCollection(args.collectionSlug).slug,
                     QueryStatus(args.status))
        rels == BuildCmsRelationsQuery(args.includeRelations)
    IN UNION {WithRelations(e, rels, media) : e \in where}

\* A faulty variant: the lookup by id with the public status filter.
GetCmsEntryByIdPublished(rows, media, args) ==
    UNION {WithRelations(e, BuildCmsRelationsQuery(args.includeRelations), media) :
              e \in {x \in WhereId(rows, args.id) : x.status = "published"}}

\* The result objects findFirst can return for getCmsEntryById's query.
GetCmsEntryByIdResults(rows, media, args) ==
    UNION {WithRelations(e, BuildCmsRelationsQuery(args.includeRelations), media) :
              e \in WhereId(rows, args.id)}

\* GetCmsCollectionParams
ListArg(k, st, rel, limit, offset) ==
    [collectionSlug |-> k, status |-> st, includeRelations |-> rel,
     limit |-> limit, offset |-> offset]

ListArgs(K) ==
    {ListArg(k, st, NoRelations, NoNumber, NoNumber) :
        k \in K, st \in {Unset} \cup CmsEntryStatus}
    \cup {ListArg("blog", "all", OnlyMedia, NoNumber, NoNumber),
          ListArg("blog", "all", NoRelations, 1, NoNumber),
          ListArg("blog", "all", NoRelations, 1, 1),
          ListArg("blog", "all", NoRelations, NoNumber, 1),
          ListArg(UnknownKey, Unset, NoRelations, NoNumber, NoNumber),
          ListArg(InheritedKey, "all", NoRelations, NoNumber, NoNumber)}

\* GetCmsEntryParams
GetArg(k, s, st, rel) ==
    [collectionSlug |-> k, slug |-> s, status |-> st, includeRelations |-> rel]

GetArgs(K) ==
    {GetArg(k, s, st, NoRelations) :
        k \in K, s \in Slugs, st \in {Unset, "all", "draft"}}
    \cup {GetArg("blog", "a", "all", BothRelations),
          GetArg(UnknownKey, "a", "all", NoRelations),
          GetArg(InheritedKey, "a", "all", NoRelations)}

\* GetCmsEntryByIdParams
ByIdArgs == [id : Ids, includeRelations : {NoRelations, OnlyMedia}]

\* findFirst's result as the caller sees it: `entry || null`.
EntryOrNull(found) ==
    IF found = {} THEN {Returned("absent", << >>)}
    ELSE {Returned("entry", <<r>>) : r \in found}

\* The statement carries an OFFSET and no LIMIT: the query builder emits
\* `offset ?` only when offset is truthy, `limit ?` only for a number.
OffsetWithoutLimit(args) ==
    args.limit = NoNumber /\ args.offset # NoNumber /\ args.offset > 0

\* What one run of getCmsCollection's body ends with.
GetCmsCollectionOutcomes(rows, media, args) ==
    IF ~HasCollection(args.collectionSlug) THEN {Thrown("CollectionNotFound")}
    ELSE IF OffsetWithoutLimit(args)
    THEN {Thrown("StoreSyntaxError"), Thrown("StoreFailure")}
    ELSE {Returned("list", r) : r \in GetCmsCollectionResults(rows, media, args)}
         \cup {Thrown("StoreFailure")}

\* What one run of getCmsEntry's body ends with.
GetCmsEntryOutcomes(rows, media, args) ==
    IF ~HasCollection(args.collectionSlug) THEN {Thrown("CollectionNotFound")}
    ELSE EntryOrNull(GetCmsEntryResults(rows, media, args))
         \cup {Thrown("StoreFailure")}

\* What one run of getCmsEntryById's body ends with.
GetCmsEntryByIdOutcomes(rows, media, args) ==
    EntryOrNull(GetCmsEntryByIdResults(rows, media, args))
        \cup {Thrown("StoreFailure")}

GetCmsCollection(c, args) ==
    /\ CanCall(c)
    /\ Begin(c, "list", args, NoRow)
    /\ \E r \in GetCmsCollectionOutcomes(entries, entryMedia, args) : Finish(c, r)
    /\ UNCHANGED <<registry, memo, entries, entryMedia, nextId, clock>>

GetCmsEntry(c, args) ==
    /\ CanCall(c)
    /\ Begin(c, "get", args, NoRow)
    /\ \E r \in GetCmsEntryOutcomes(entries, entryMedia, args) : Finish(c, r)
    /\ UNCHANGED <<registry, memo, entries, entryMedia, nextId, clock>>

GetCmsEntryById(c, args) ==
    /\ CanCall(c)
    /\ Begin(c, "getById", args, NoRow)
    /\ \E r \in GetCmsEntryByIdOutcomes(entries, entryMedia, args) : Finish(c, r)
    /\ UNCHANGED <<registry, memo, entries, entryMedia, nextId, clock>>

\* ------------------------------------------------------------ environment

\* An awaited store statement rejects (timeout, transport error): nothing
\* in the call catches it, so the statement has no effect and the call ends.
\* This is the rejection of a call's second or later statement; that of its
\* first statement is an outcome of the action that begins the call.
StoreFailure(c) ==
    /\ pc[c] \in {"create_insert", "update_conflict", "update_set",
                  "delete_media", "delete_entry"}
    /\ Finish(c, Thrown("StoreFailure"))
    /\ UNCHANGED <<registry, memo, entries, entryMedia, nextId, clock, call, ncalls>>

\* One step of some caller, the callers naming the configured keys K (and
\* the unknown key).
Step(K) ==
    \/ \E c \in Callers, args \in CreateArgs(K) : CreateCmsEntry(c, args)
    \/ \E c \in Callers : CreateInsert(c)
    \/ \E c \in Callers, args \in UpdateArgs : UpdateCmsEntry(c, args)
    \/ \E c \in Callers : UpdateConflict(c)
    \/ \E c \in Callers : UpdateSet(c)
    \/ \E c \in Callers, args \in DeleteArgs : DeleteCmsEntry(c, args)
    \/ \E c \in Callers : DeleteMedia(c)
    \/ \E c \in Callers : DeleteEntry(c)
    \/ \E c \in Callers, args \in ListArgs(K) : GetCmsCollection(c, args)
    \/ \E c \in Callers, args \in GetArgs(K) : GetCmsEntry(c, args)
    \/ \E c \in Callers, args \in ByIdArgs : GetCmsEntryById(c, args)
    \/ \E c \in Callers : StoreFailure(c)

Next == Step({"blog"})

Spec == Init /\ [][Next]_vars

NextTwo == Step({"blog", "pages"})

\* The program under the two-collection configuration.
SpecTwo == InitTwo /\ [][NextTwo]_vars

\* ------------------------------------------------------- media subsystem

\* The media subsystem attaching an asset to an entry: it adds one
\* association row for an entry it finds stored, in one store statement.
AttachArgs == [entryId : {1, 2}, mediaId : {"m3"}, position : {3}]
FreshMediaIds == {"em4", "em5", "em6"}

AttachMedia(c, args) ==
    /\ CanCall(c)
    /\ Begin(c, "attach", args, NoRow)
    /\ IF WhereId(entries, args.entryId) = {}
       THEN /\ Finish(c, Thrown("EntryNotFound"))
            /\ UNCHANGED entryMedia
       ELSE LET id == CHOOSE i \in FreshMediaIds \ {m.id : m \in entryMedia} : TRUE
            IN /\ entryMedia' = entryMedia \cup
                      {MediaRow(id, args.entryId, args.mediaId, args.position)}
               /\ Finish(c, Returned("void", << >>))
    /\ UNCHANGED <<registry, memo, entries, nextId, clock>>

NextAttach ==
    \/ Step({"blog"})
    \/ \E c \in Callers, args \in AttachArgs : AttachMedia(c, args)

\* The program together with the media subsystem's attach.
SpecAttach == Init /\ [][NextAttach]_vars

\* ----------------------------------------------------------- memoisation

\* The parameter objects a request passes: cache() tells them apart by
\* identity, whatever values they hold at the time of the call.
ParamRefs == {"o1", "o2"}

\* The promise of a body that has not ended yet.
Pending == [kind |-> "pending", error |-> "", rows |-> << >>]

\* cache() keeps what the wrapped function returned, the promise of the
\* async body, under the object passed; ret is what the promise has settled
\* to, Pending until then.
MemoEntry(fn, ref, args, r) == [fn |-> fn, ref |-> ref, args |-> args, ret |-> r]

\* The entries cache() finds for a call of fn passing the object ref.
MemoHits(fn, ref) == {m \in memo : m.fn = fn /\ m.ref = ref}

\* The locals of a call of a memoised query: the object passed and the
\* store round trips the call has caused.
MemoCall(fn, ref, args, n) ==
    [op |-> fn, args |-> args, existing |-> NoRow, changes |-> 0,
     ref |-> ref, roundTrips |-> n]

\* if (!collection) throw ...: what the body ends with before it builds a
\* statement, if it ends there.
CollectionGuard(args) ==
    IF ~HasCollection(args.collectionSlug)
    THEN {Thrown("CollectionNotFound")} ELSE {}

\* cache(fn) within one request, up to the point where the call yields.  A
\* call passing the object an earlier call of the same function passed gets
\* that call's promise and the body does not run: the call ends with what
\* the promise settled to, or waits for it while it is pending.  Any other
\* call runs the body and its promise is remembered under the object
\* passed: the body throws before any statement (early), or issues its
\* statement (one store round trip) and awaits it.
Cache(c, fn, ref, args, early) ==
    /\ ncalls' = [ncalls EXCEPT ![c] = @ + 1]
    /\ IF MemoHits(fn, ref) # {}
       THEN \E m \in MemoHits(fn, ref) :
                /\ call' = [call EXCEPT ![c] = MemoCall(fn, ref, args, 0)]
                /\ IF m.ret = Pending THEN Goto(c, "memo_wait")
                                      ELSE Finish(c, m.ret)
                /\ UNCHANGED memo
       ELSE IF early # {}
       THEN \E r \in early :
                /\ call' = [call EXCEPT ![c] = MemoCall(fn, ref, args, 0)]
                /\ Finish(c, r)
                /\ memo' = memo \cup {MemoEntry(fn, ref, args, r)}
       ELSE /\ call' = [call EXCEPT ![c] = MemoCall(fn, ref, args, 1)]
            /\ Goto(c, "memo_read")
            /\ memo' = memo \cup {MemoEntry(fn, ref, args, Pending)}
    /\ UNCHANGED <<registry, entries, entryMedia, nextId, clock>>

\* export const getCmsCollection = cache(async (params) => ...)
GetCmsCollectionCached(c, ref, args) ==
    /\ CanCall(c)
    /\ Cache(c, "list", ref, args, CollectionGuard(args))

\* export const getCmsEntry = cache(async (params) => ...)
GetCmsEntryCached(c, ref, args) ==
    /\ CanCall(c)
    /\ Cache(c, "get", ref, args, CollectionGuard(args))

\* export const getCmsEntryById = cache(async (params) => ...): the body
\* has no guard before its statement.
GetCmsEntryByIdCached(c, ref, args) ==
    /\ CanCall(c)
    /\ Cache(c, "getById", ref, args, {})

\* What the awaited statement of the body of fn ends the body with.
AwaitedOutcomes(fn, args) ==
    CASE fn = "list" -> GetCmsCollectionOutcomes(entries, entryMedia, args)
      [] fn = "get" -> GetCmsEntryOutcomes(entries, entryMedia, args)
      [] fn = "getById" -> GetCmsEntryByIdOutcomes(entries, entryMedia, args)

\* const entries = await query / const entry = await db.query...findFirst:
\* the store answers the statement of a memoised call, the body ends and
\* the remembered promise settles.
CachedStatement(c) ==
    /\ pc[c] = "memo_read"
    /\ \E r \in AwaitedOutcomes(call[c].op, call[c].args) :
           /\ Finish(c, r)
           /\ memo' = {IF m.fn = call[c].op /\ m.ref = call[c].ref
                       THEN [m EXCEPT !.ret = r] ELSE m : m \in memo}
    /\ UNCHANGED <<registry, entries, entryMedia, nextId, clock, call, ncalls>>

\* A call that was handed a pending promise resumes once it has settled.
CachedAwait(c) ==
    /\ pc[c] = "memo_wait"
    /\ \E m \in MemoHits(call[c].op, call[c].ref) :
           /\ m.ret # Pending
           /\ Finish(c, m.ret)
    /\ UNCHANGED <<registry, memo, entries, entryMedia, nextId, clock, call, ncalls>>

NextMemo ==
    \/ Step({"blog"})
    \/ \E c \in Callers, ref \in ParamRefs, args \in ListArgs({"blog"}) :
           GetCmsCollectionCached(c, ref, args)
    \/ \E c \in Callers, ref \in ParamRefs, args \in GetArgs({"blog"}) :
           GetCmsEntryCached(c, ref, args)
    \/ \E c \in Callers, ref \in ParamRefs, args \in ByIdArgs :
           GetCmsEntryByIdCached(c, ref, args)
    \/ \E c \in Callers : CachedStatement(c)
    \/ \E c \in Callers : CachedAwait(c)

\* The program with its callers inside one request of the rendering
\* framework, where the memoised queries share the request's cache.
SpecMemo == Init /\ [][NextMemo]_vars



\* ----------------------------------------------------------------- claims

\* Caller c issues a call of operation op in this step.
Starts(c, op) == ncalls'[c] = ncalls[c] + 1 /\ call'[c].op = op

\* The (collection, slug) a create call is for.
CreateCollection(c) == ResolveCollection(call[c].args.collectionSlug).slug
CreateSlug(c) == call[c].args.slug

\* C1: in every reachable state no two distinct entries have the same
\* (collection, slug) pair.
C1_UniqueCollectionSlug ==
    \A e1, e2 \in entries :
        (e1.collection = e2.collection /\ e1.slug = e2.slug) => e1.id = e2.id

\* C2: of two createEntry calls racing for a (collection, slug) no entry
\* holds yet, only one returns the created entry: the insert of a call whose
\* pair is held by the time it runs ends with a duplicate-conflict failure
\* and inserts nothing.
C2_RaceLoserFails ==
    [][\A c \in Callers :
          (/\ pc[c] = "create_insert"
           /\ pc'[c] = "done"
           /\ WhereCollectionSlug(entries, CreateCollection(c), CreateSlug(c)) # {})
          => (/\ ret'[c].kind = "thrown"
              /\ ret'[c].error \in {"DuplicateSlug", "UniqueConstraintViolation",
                                    "StoreFailure"}
              /\ entries' = entries)]_vars

\* C3: a createEntry call for a (collection, slug) an existing entry holds
\* fails with DuplicateSlug (with the store's error when the store rejects
\* the lookup), inserts nothing and leaves the store unchanged.
C3_DuplicateSlugOnExisting ==
    [][\A c \in Callers :
          (/\ Starts(c, "create")
           /\ call'[c].args.collectionSlug \in DOMAIN registry
           /\ \E e \in entries :
                 /\ e.collection = registry[call'[c].args.collectionSlug].slug
                 /\ e.slug = call'[c].args.slug)
          => (/\ pc'[c] = "done"
              /\ ret'[c] \in {Thrown("DuplicateSlug"), Thrown("StoreFailure")}
              /\ entries' = entries
              /\ entryMedia' = entryMedia
              /\ nextId' = nextId)]_vars

\* C3 witness: one caller's createEntry returned the entry, and the other's
\* createEntry for the same (collection, slug) ended with DuplicateSlug.
C3_Witness ==
    \E c, d \in Callers :
        /\ c # d
        /\ call[c].op = "create" /\ pc[c] = "done" /\ ret[c].kind = "entry"
        /\ call[d].op = "create" /\ pc[d] = "done"
        /\ ret[d] = Thrown("DuplicateSlug")
        /\ call[d].args.collectionSlug = call[c].args.collectionSlug
        /\ call[d].args.slug = call[c].args.slug
        /\ ret[c].rows[1].row \in entries

\* C4: deleteEntry is atomic over its two deletes: whenever a deleteEntry
\* call has removed media associations of an entry, in a state another
\* caller can observe or one left by a failure, the entry row is gone too.
C4_DeleteAtomic ==
    \A c \in Callers :
        (call[c].op = "delete" /\ call[c].changes > 0)
            => WhereId(entries, call[c].args.id) = {}

\* C5: updateEntry never returns an absent/null result to its caller; a
\* zero-row update fails with UpdateRaceLost.
C5_UpdateNeverNull ==
    \A c \in Callers :
        (call[c].op = "update" /\ pc[c] = "done") => ret[c].kind # "null"

\* The set of entry rows a returned list carries.
RowsOf(list) == {list[i].row : i \in 1..Len(list)}

\* C6: right after createEntry(C, S, ...) succeeds, getEntryBySlug(C, S,
\* status = "all") returns an entry whose collection, slug, title, content,
\* fields, status and createdBy are the values supplied to createEntry.
C6_CreateRoundTrip ==
    [][\A c \in Callers :
          (pc[c] = "create_insert" /\ pc'[c] = "done" /\ ret'[c].kind = "entry")
          => LET a == call[c].args
                 found == GetCmsEntryResults(entries', entryMedia',
                              GetArg(a.collectionSlug, a.slug, "all", NoRelations))
             IN /\ found # {}
                /\ \A r \in found :
                      /\ r.row.collection = registry[a.collectionSlug].slug
                      /\ r.row.slug = a.slug
                      /\ r.row.title = a.title
                      /\ r.row.content = a.content
                      /\ r.row.fields = a.fields
                      /\ r.row.status = (IF a.status = Unset THEN "draft" ELSE a.status)
                      /\ r.row.createdBy = a.createdBy]_vars

\* C7: a draft or archived entry is never returned by getEntryBySlug or
\* listEntries called without a status, while the same call with
\* status = "all" returns it.
C7_DefaultStatusPublished ==
    \A e \in entries, k \in DOMAIN registry :
        (e.status \in {"draft", "archived"} /\ registry[k].slug = e.collection)
        => /\ \A l \in GetCmsCollectionResults(entries, entryMedia,
                         ListArg(k, Unset, NoRelations, NoNumber, NoNumber)) :
                  e \notin RowsOf(l)
           /\ \A r \in GetCmsEntryResults(entries, entryMedia,
                         GetArg(k, e.slug, Unset, NoRelations)) :
                  r.row # e
           /\ \A l \in GetCmsCollectionResults(entries, entryMedia,
                         ListArg(k, "all", NoRelations, NoNumber, NoNumber)) :
                  e \in RowsOf(l)
           /\ \A r \in GetCmsEntryResults(entries, entryMedia,
                         GetArg(k, e.slug, "all", NoRelations)) :
                  r.row = e

\* C8: listEntries with no limit and no offset returns exactly the stored
\* entries of the resolved collection that have the requested status (any
\* status for "all", published when none is given), each once.
C8_ListExactlyMatching ==
    \A k \in DOMAIN registry, st \in {Unset} \cup CmsEntryStatus,
       rel \in {NoRelations, OnlyMedia, BothRelations} :
        \A l \in GetCmsCollectionResults(entries, entryMedia,
                     ListArg(k, st, rel, NoNumber, NoNumber)) :
            /\ RowsOf(l) =
                 {e \in entries :
                    /\ e.collection = registry[k].slug
                    /\ \/ st = "all"
                       \/ st = Unset /\ e.status = "published"
                       \/ e.status = st}
            /\ Len(l) = Cardinality(RowsOf(l))

\* C8 witness: a listEntries call without limit and offset returned an
\* entry and left out an entry of another collection that has the requested
\* status.
C8_Witness ==
    \E c \in Callers :
        /\ call[c].op = "list" /\ pc[c] = "done" /\ ret[c].kind = "list"
        /\ call[c].args.limit = NoNumber /\ call[c].args.offset = NoNumber
        /\ Len(ret[c].rows) >= 1
        /\ \E e \in entries :
              /\ e.collection # registry[call[c].args.collectionSlug].slug
              /\ e.status = ret[c].rows[1].row.status
              /\ e \notin RowsOf(ret[c].rows)

\* C9 as stated: every list listEntries returns is strictly descending in
\* createdAt.
C9_StrictlyDescending ==
    \A k \in DOMAIN registry, st \in {Unset} \cup CmsEntryStatus :
        \A l \in GetCmsCollectionResults(entries, entryMedia,
                     ListArg(k, st, NoRelations, NoNumber, NoNumber)) :
            \A i \in 1..(Len(l) - 1) : l[i].row.createdAt > l[i + 1].row.createdAt

\* C9 amended: every list listEntries returns, for any arguments, is in
\* descending createdAt order, entries of equal createdAt in either order: no
\* entry is followed by one with a greater createdAt.
C9_Descending ==
    \A k \in DOMAIN registry, st \in {Unset} \cup CmsEntryStatus,
       limit \in {NoNumber, 1, 2}, offset \in {NoNumber, 1} :
        \A l \in GetCmsCollectionResults(entries, entryMedia,
                     ListArg(k, st, NoRelations, limit, offset)) :
            \A i \in 1..(Len(l) - 1) : l[i].row.createdAt >= l[i + 1].row.createdAt

\* C9 witness: a listEntries call returned two entries created at different
\* times, the later one first.
C9_Witness ==
    \E c \in Callers :
        /\ call[c].op = "list" /\ pc[c] = "done" /\ ret[c].kind = "list"
        /\ Len(ret[c].rows) >= 2
        /\ ret[c].rows[1].row.createdAt > ret[c].rows[2].row.createdAt

\* C10: once deleteEntry(id) has completed, no association row with
\* entryId = id and no entry row with that id is left, and getEntryById(id)
\* with media relations finds nothing.
C10_DeletedEntryGone ==
    \A c \in Callers :
        (call[c].op = "delete" /\ pc[c] = "done" /\ ret[c].kind = "void")
        => /\ WhereEntryId(entryMedia, call[c].args.id) = {}
           /\ WhereId(entries, call[c].args.id) = {}
           /\ GetCmsEntryByIdResults(entries, entryMedia,
                  [id |-> call[c].args.id, includeRelations |-> OnlyMedia]) = {}

\* C10 witness: a deleteEntry call of an entry that had media associations
\* has completed.
C10_Witness ==
    \E c \in Callers :
        /\ call[c].op = "delete" /\ pc[c] = "done" /\ ret[c].kind = "void"
        /\ call[c].changes > 0

\* The attributes an update call supplied.
Supplied(args) ==
    {k \in {"slug", "title", "content", "fields", "status"} : args[k] # Unset}

\* Caller c's update statement runs in this step and the call ends.
UpdateStatementRuns(c) == pc[c] = "update_set" /\ pc'[c] = "done"

\* C11: updateEntry changes only the attributes the caller supplied: every
\* other attribute of the entry (updatedAt aside) keeps its value, a
\* returned call has written the supplied values, and a call that supplies
\* nothing for an existing entry succeeds (the store not failing).
C11_UpdateOnlySupplied ==
    [][\A c \in Callers :
          /\ UpdateStatementRuns(c)
             => \A e \in WhereId(entries, call[c].args.id) :
                   \A e2 \in WhereId(entries', call[c].args.id) :
                      \A k \in DOMAIN e \ {"updatedAt"} :
                         IF k \in Supplied(call[c].args)
                         THEN ret'[c].kind = "entry" => e2[k] = call[c].args[k]
                         ELSE e2[k] = e[k]
          /\ (/\ Starts(c, "update")
              /\ Supplied(call'[c].args) = {}
              /\ WhereId(entries, call'[c].args.id) # {})
             => ~(/\ pc'[c] = "done"
                  /\ ret'[c].kind = "thrown"
                  /\ ret'[c] # Thrown("StoreFailure"))]_vars

\* C12: updateEntry({id, status: published}) on a draft entry whose
\* publishedAt is null leaves the entry with a non-null publishedAt.
C12_PublishSetsPublishedAt ==
    [][\A c \in Callers :
          (/\ UpdateStatementRuns(c)
           /\ ret'[c].kind = "entry"
           /\ call[c].args.status = "published"
           /\ \E e \in WhereId(entries, call[c].args.id) :
                 e.status = "draft" /\ e.publishedAt = NullTime)
          => \A e2 \in WhereId(entries', call[c].args.id) :
                e2.publishedAt # NullTime]_vars

\* C13: updateEntry({id, status: archived}) on a published entry leaves the
\* entry's publishedAt equal to its value before the call.
C13_ArchiveKeepsPublishedAt ==
    [][\A c \in Callers :
          (UpdateStatementRuns(c) /\ call[c].args.status = "archived")
          => \A e \in WhereId(entries, call[c].args.id) :
                e.status = "published"
                => \A e2 \in WhereId(entries', call[c].args.id) :
                      e2.publishedAt = e.publishedAt]_vars

\* C13 witness: an updateEntry call with status archived found the entry
\* published and returned it archived.
C13_Witness ==
    \E c \in Callers :
        /\ call[c].op = "update" /\ pc[c] = "done" /\ ret[c].kind = "entry"
        /\ call[c].args.status = "archived"
        /\ call[c].existing.status = "published"
        /\ ret[c].rows[1].row.status = "archived"
        /\ ret[c].rows[1].row \in entries

\* C14: an updateEntry call given a slug other than the entry's current one,
\* held by another entry of the same collection, goes to the duplicate
\* check, and the check, finding such an entry, ends the call with
\* DuplicateSlug; no entry is changed.  A statement the store rejects ends
\* the call with the store's error instead.
C14_UpdateDuplicateSlug ==
    [][\A c \in Callers :
          /\ (/\ Starts(c, "update")
              /\ call'[c].args.slug # Unset
              /\ \E t \in WhereId(entries, call'[c].args.id), o \in entries :
                    /\ o.id # t.id
                    /\ o.collection = t.collection
                    /\ o.slug = call'[c].args.slug
                    /\ t.slug # call'[c].args.slug)
             => /\ pc'[c] = "update_conflict" \/ ret'[c] = Thrown("StoreFailure")
                /\ entries' = entries
          /\ (/\ pc[c] = "update_conflict"
              /\ pc'[c] # "update_conflict"
              /\ \E o \in entries :
                    /\ o.id # call[c].args.id
                    /\ o.collection = call[c].existing.collection
                    /\ o.slug = call[c].args.slug)
             => /\ pc'[c] = "done"
                /\ ret'[c] \in {Thrown("DuplicateSlug"), Thrown("StoreFailure")}
                /\ entries' = entries]_vars

\* C15: updateEntry and deleteEntry called with an id no stored entry has
\* fail with EntryNotFound (with the store's error when the store rejects
\* the lookup) and leave the entry table and the media-association table
\* unchanged.
C15_EntryNotFound ==
    [][\A c \in Callers :
          (/\ Starts(c, "update") \/ Starts(c, "delete")
           /\ WhereId(entries, call'[c].args.id) = {})
          => /\ pc'[c] = "done"
             /\ ret'[c] \in {Thrown("EntryNotFound"), Thrown("StoreFailure")}
             /\ entries' = entries
             /\ entryMedia' = entryMedia]_vars

\* C15 witness: over a store that holds an entry and associations, an
\* updateEntry call and a deleteEntry call have ended with EntryNotFound.
C15_Witness ==
    \E c, d \in Callers :
        /\ call[c].op = "update" /\ pc[c] = "done"
        /\ ret[c] = Thrown("EntryNotFound")
        /\ call[d].op = "delete" /\ pc[d] = "done"
        /\ ret[d] = Thrown("EntryNotFound")
        /\ entries # {} /\ entryMedia # {}

\* C16: listEntries, getEntryBySlug and createEntry called with a
\* collection identifier the configuration does not define fail with
\* CollectionNotFound in their first step, having read no row, and the
\* store is unchanged.
C16_CollectionNotFound ==
    [][\A c \in Callers :
          (/\ Starts(c, "list") \/ Starts(c, "get") \/ Starts(c, "create")
           /\ call'[c].args.collectionSlug \notin DOMAIN registry)
          => /\ pc'[c] = "done"
             /\ ret'[c] = Thrown("CollectionNotFound")
             /\ call'[c].existing = NoRow
             /\ entries' = entries
             /\ entryMedia' = entryMedia
             /\ nextId' = nextId]_vars

\* C17: getEntryById returns the entry with the given id whenever one is
\* stored, whatever its collection and status, and absent only when no
\* entry has that id; a lookup the store rejects ends with the store's
\* error.
C17_GetByIdIgnoresFilters ==
    [][\A c \in Callers :
          (Starts(c, "getById") /\ ret'[c] # Thrown("StoreFailure"))
          => /\ pc'[c] = "done"
             /\ IF WhereId(entries, call'[c].args.id) = {}
                THEN ret'[c] = Returned("absent", << >>)
                ELSE /\ ret'[c].kind = "entry"
                     /\ ret'[c].rows[1].row \in WhereId(entries, call'[c].args.id)]_vars

\* C17 witness: getEntryById returned an entry of the second collection
\* that is not published.
C17_Witness ==
    \E c \in Callers :
        /\ call[c].op = "getById" /\ pc[c] = "done" /\ ret[c].kind = "entry"
        /\ ret[c].rows[1].row.collection = "page"
        /\ ret[c].rows[1].row.status = "draft"

\* C18: in every reachable state every stored entry's status is one of
\* draft, published and archived; "all" is never stored.
C18_StoredStatus == \A e \in entries : e.status \in CMS_ENTRY_STATUS

\* C19: createEntry called without a status stores the new entry with
\* status draft; called with a status it stores exactly that status.
C19_CreateStatus ==
    [][\A c \in Callers :
          (pc[c] = "create_insert" /\ pc'[c] = "done" /\ ret'[c].kind = "entry")
          => /\ entries' \ entries = {ret'[c].rows[1].row}
             /\ ret'[c].rows[1].row.status =
                   IF call[c].args.status = Unset THEN "draft"
                   ELSE call[c].args.status]_vars

\* C19 witness: one createEntry call without a status stored a draft, and
\* another with a status stored an entry of that status.
C19_Witness ==
    \E c, d \in Callers :
        /\ call[c].op = "create" /\ pc[c] = "done" /\ ret[c].kind = "entry"
        /\ call[c].args.status = Unset
        /\ ret[c].rows[1].row.status = "draft"
        /\ ret[c].rows[1].row \in entries
        /\ call[d].op = "create" /\ pc[d] = "done" /\ ret[d].kind = "entry"
        /\ call[d].args.status \in {"published", "archived"}
        /\ ret[d].rows[1].row.status = call[d].args.status
        /\ ret[d].rows[1].row \in entries

\* The association rows a result object carries.
MediaOf(r) == {r.entryMedia[i] : i \in 1..Len(r.entryMedia)}

\* C20: when media relations are requested, each returned entry carries
\* exactly the associations whose entryId is its id, each once, in ascending
\* position order; when neither relation is requested the query is extended
\* with no relation and the entry carries none.
C20_MediaRelations ==
    [][\A c \in Callers :
          (Starts(c, "list") \/ Starts(c, "get") \/ Starts(c, "getById"))
          => \A i \in 1..Len(ret'[c].rows) :
                LET r == ret'[c].rows[i]
                    rel == call'[c].args.includeRelations
                IN /\ rel.media
                      => /\ MediaOf(r) = {m \in entryMedia : m.entryId = r.row.id}
                         /\ Len(r.entryMedia) = Cardinality(MediaOf(r))
                         /\ \A j \in 1..(Len(r.entryMedia) - 1) :
                               r.entryMedia[j].position <= r.entryMedia[j + 1].position
                   /\ ~rel.media => r.entryMedia = << >>
                   /\ (~rel.media /\ ~rel.createdByUser) => r.with = {}]_vars

\* C20 witness: a listEntries call asking for media returned an entry with
\* two associations, the lower position first, and an entry with none.
C20_Witness ==
    \E c \in Callers :
        /\ call[c].op = "list" /\ pc[c] = "done" /\ ret[c].kind = "list"
        /\ call[c].args.includeRelations.media
        /\ \E i, j \in 1..Len(ret[c].rows) :
              /\ Len(ret[c].rows[i].entryMedia) = 2
              /\ ret[c].rows[i].entryMedia[1].position
                    < ret[c].rows[i].entryMedia[2].position
              /\ ret[c].rows[j].entryMedia = << >>

\* Caller c's deleteEntry call takes a step.
DeleteSteps(c) ==
    \/ Starts(c, "delete")
    \/ pc[c] \in {"delete_media", "delete_entry"} /\ pc'[c] # pc[c]

\* C21: a deleteEntry call removes only association rows of the entry it
\* was called for and that entry's row: every other association row and
\* every other entry row is kept as it is, and no row is added.
C21_DeleteFrame ==
    [][\A c \in Callers :
          DeleteSteps(c)
          => /\ entryMedia' \subseteq entryMedia
             /\ \A m \in entryMedia \ entryMedia' : m.entryId = call'[c].args.id
             /\ entries' \subseteq entries
             /\ \A e \in entries \ entries' : e.id = call'[c].args.id]_vars

\* C21 witness: a deleteEntry call that removed associations has completed
\* and the entry and association of another entry are still stored.
C21_Witness ==
    \E c \in Callers :
        /\ call[c].op = "delete" /\ pc[c] = "done" /\ ret[c].kind = "void"
        /\ call[c].changes > 0
        /\ \E m \in entryMedia : \E e \in entries :
              e.id = m.entryId /\ e.id # call[c].args.id

\* C22: in every reachable state, a deleteEntry running concurrently with
\* an attach to the same entry included, every association row refers to an
\* entry that is stored.
C22_NoOrphanAssociation ==
    \A m \in entryMedia : \E e \in entries : e.id = m.entryId

\* The status changes the lifecycle allows.
AllowedTransitions ==
    {<<"draft", "published">>, <<"published", "archived">>, <<"archived", "published">>}

\* C23: an entry's status changes only from draft to published, from
\* published to archived and from archived to published; no step moves an
\* entry back to draft.
C23_StatusTransitions ==
    [][\A e \in entries, e2 \in entries' :
          (e.id = e2.id /\ e.status # e2.status)
          => <<e.status, e2.status>> \in AllowedTransitions]_vars



\* A call of a memoised query passing a parameter object.
MemoisedCall(c) == ncalls'[c] = ncalls[c] + 1 /\ "ref" \in DOMAIN call'[c]
\* A call of a memoised query ends.
MemoisedReturn(c) ==
    /\ MemoisedCall(c) \/ pc[c] \in {"memo_read", "memo_wait"}
    /\ pc'[c] = "done"
\* The request's remembered calls of the same query with equal parameter values.
SameValues(c) == {m \in memo : m.fn = call'[c].op /\ m.args = call'[c].args}

\* C24: within one request the memoised queries key on the parameter
\* values: a call whose parameter values equal an earlier call's makes no
\* store round trip, a call is served from the memo only by a call with its
\* own parameter values, and a call returns what every call of the request
\* with equal parameter values has returned.
C24_MemoKeysOnValues ==
    [][\A c \in Callers :
          /\ MemoisedCall(c) =>
                /\ SameValues(c) # {} => call'[c].roundTrips = 0
                /\ \A m \in MemoHits(call'[c].op, call'[c].ref) :
                       m.args = call'[c].args
          /\ MemoisedReturn(c) =>
                \A m \in memo' :
                    (m.fn = call'[c].op /\ m.args = call'[c].args /\ m.ret # Pending)
                    => ret'[c] = m.ret]_vars

\* The filtered list in createdAt-descending order, in each order the store
\* may give entries of equal createdAt.
FullList(args) ==
    OrderByCreatedAtDesc(WhereCollectionStatus(entries,
        ResolveCollection(args.collectionSlug).slug, QueryStatus(args.status)))

\* The rows at positions O+1 to O+L of list o (to its end when L is absent).
Positions(o, limit, offset) ==
    LET O == IF offset = NoNumber THEN 0 ELSE offset
        last == IF limit = NoNumber \/ O + limit > Len(o) THEN Len(o) ELSE O + limit
    IN [i \in 1..(IF last > O THEN last - O ELSE 0) |-> o[O + i]]

\* C25: listEntries with limit L and offset O returns the entries at
\* positions O+1 to O+L of the full filtered list in createdAt-descending
\* order (fewer when the list is shorter); with no limit it returns every
\* matching entry from position O+1 on (a query the store fails to run
\* for a fault of its own aside).
C25_LimitOffset ==
    [][\A c \in Callers :
          (/\ Starts(c, "list")
           /\ HasCollection(call'[c].args.collectionSlug)
           /\ ret'[c] # Thrown("StoreFailure")) =>
             /\ ret'[c].kind = "list"
             /\ \E o \in FullList(call'[c].args) :
                   [i \in 1..Len(ret'[c].rows) |-> ret'[c].rows[i].row] =
                       Positions(o, call'[c].args.limit, call'[c].args.offset)]_vars

\* Callers c and d are in updateEntry calls on the same entry that supply
\* disjoint sets of attributes.
DisjointUpdates(c, d) ==
    /\ c # d
    /\ call[c].op = "update" /\ call[d].op = "update"
    /\ call[c].args.id = call[d].args.id
    /\ Supplied(call[c].args) # {} /\ Supplied(call[d].args) # {}
    /\ Supplied(call[c].args) \cap Supplied(call[d].args) = {}

\* C26: when two callers update the same entry with disjoint sets of
\* supplied attributes, the update statement of either, when it succeeds,
\* writes its own attributes, and it leaves the other's as the row holds them, wherever the
\* other call stands: neither overwrites the other's attribute with a stale
\* value, and the row that carried one change carries both afterwards.
C26_DisjointUpdatesBothSurvive ==
    [][\A c, d \in Callers :
          (DisjointUpdates(c, d) /\ UpdateStatementRuns(d)) =>
             \A e \in WhereId(entries, call[d].args.id) :
                \A e2 \in WhereId(entries', call[d].args.id) :
                   /\ \A k \in Supplied(call[c].args) : e2[k] = e[k]
                   /\ ret'[d].kind = "entry" =>
                         \A k \in Supplied(call[d].args) : e2[k] = call[d].args[k]]_vars

\* C26 witness: two updateEntry calls on one entry with disjoint attributes
\* overlapped (the one that wrote second had read the entry before the
\* first wrote, and the first returned before the second wrote), both
\* returned, and the stored row carries both changes.
C26_Witness ==
    \E c, d \in Callers :
        /\ DisjointUpdates(c, d)
        /\ pc[c] = "done" /\ ret[c].kind = "entry"
        /\ pc[d] = "done" /\ ret[d].kind = "entry"
        /\ \E k \in Supplied(call[c].args) : call[d].existing[k] # call[c].args[k]
        /\ \E k \in Supplied(call[d].args) :
              ret[c].rows[1].row[k] # call[d].args[k]
        /\ \E e \in WhereId(entries, call[c].args.id) :
              /\ \A k \in Supplied(call[c].args) : e[k] = call[c].args[k]
              /\ \A k \in Supplied(call[d].args) : e[k] = call[d].args[k]

\* C27: updateEntry runs the same-collection duplicate check for every
\* supplied slug that differs from the entry's current slug, the empty
\* string included: a call that supplies such a slug goes to the check, and
\* only a call that passed the check or supplies no differing slug reaches
\* the update statement.
C27_CheckRunsForEverySlug ==
    [][\A c \in Callers :
          /\ (/\ Starts(c, "update")
              /\ call'[c].args.slug # Unset
              /\ Found(call'[c].existing)
              /\ call'[c].args.slug # call'[c].existing.slug)
             => pc'[c] = "update_conflict"
          /\ (pc[c] # "update_set" /\ pc'[c] = "update_set")
             => \/ pc[c] = "update_conflict"
                \/ call'[c].args.slug = Unset
                \/ call'[c].args.slug = call'[c].existing.slug]_vars

\* Caller c's updateEntry call takes a step.
UpdateSteps(c) ==
    \/ Starts(c, "update")
    \/ pc[c] \in {"update_conflict", "update_set"} /\ pc'[c] # pc[c]

\* C28: no step of an updateEntry call changes a media-association row or
\* an entry row other than the one whose id was passed, and that row is
\* neither removed nor duplicated and keeps its id, collection and
\* createdBy.
C28_UpdateFrame ==
    [][\A c \in Callers :
          UpdateSteps(c) =>
             /\ entryMedia' = entryMedia
             /\ {e \in entries' : e.id # call'[c].args.id} =
                   {e \in entries : e.id # call'[c].args.id}
             /\ \A e \in WhereId(entries, call'[c].args.id) :
                   \E e2 \in WhereId(entries', call'[c].args.id) :
                      /\ WhereId(entries', call'[c].args.id) = {e2}
                      /\ e2.id = e.id
                      /\ e2.collection = e.collection
                      /\ e2.createdBy = e.createdBy
             /\ WhereId(entries, call'[c].args.id) = {} =>
                   WhereId(entries', call'[c].args.id) = {}]_vars

\* C28 witness: an updateEntry call changed its entry and returned while
\* another entry and media associations are stored.
C28_Witness ==
    \E c \in Callers :
        /\ call[c].op = "update" /\ pc[c] = "done" /\ ret[c].kind = "entry"
        /\ ret[c].rows[1].row # call[c].existing
        /\ ret[c].rows[1].row \in entries
        /\ \E e \in entries : e.id # call[c].args.id
        /\ \E m \in entryMedia : m.entryId = call[c].args.id
        /\ \E m \in entryMedia : m.entryId # call[c].args.id

\* Caller c's updateEntry call found its entry and supplies the slug the
\* entry had when the call read it.
OwnSlug(c) ==
    /\ call'[c].op = "update"
    /\ call'[c].existing # NoRow
    /\ call'[c].args.slug = call'[c].existing.slug

\* C29: an updateEntry call given the entry's own current slug never runs
\* the duplicate check against itself and never fails with DuplicateSlug,
\* and when its update statement succeeds the stored and returned row
\* carries every attribute the call supplied.
C29_OwnSlugNoConflict ==
    [][\A c \in Callers :
          OwnSlug(c) =>
             /\ pc'[c] # "update_conflict"
             /\ ret'[c] # Thrown("DuplicateSlug")
             /\ Starts(c, "update") => pc'[c] = "update_set"
             /\ (UpdateStatementRuns(c) /\ ret'[c].kind = "entry") =>
                   /\ ret'[c].rows[1].row \in entries'
                   /\ \A k \in Supplied(call'[c].args) :
                         ret'[c].rows[1].row[k] = call'[c].args[k]]_vars

\* C29 witness: an updateEntry call that supplied the entry's own slug
\* together with a new title and status has returned the entry with both
\* applied.
C29_Witness ==
    \E c \in Callers :
        /\ call[c].op = "update" /\ pc[c] = "done" /\ ret[c].kind = "entry"
        /\ call[c].args.slug = call[c].existing.slug
        /\ call[c].args.title # Unset
        /\ call[c].args.title # call[c].existing.title
        /\ ret[c].rows[1].row.title = call[c].args.title
        /\ ret[c].rows[1].row.status = call[c].args.status
        /\ ret[c].rows[1].row.slug = call[c].existing.slug

\* C30: in every reachable state the collection value of every stored
\* entry is the slug of a collection of the configuration.
C30_CollectionConfigured ==
    \A e \in entries : \E k \in DOMAIN registry : registry[k].slug = e.collection

\* C30 witness: createEntry called with the key "pages", whose definition
\* has the slug "page", has returned an entry stored under "page".
C30_Witness ==
    \E c \in Callers :
        /\ call[c].op = "create" /\ pc[c] = "done" /\ ret[c].kind = "entry"
        /\ call[c].args.collectionSlug = "pages"
        /\ ret[c].rows[1].row.collection = "page"
        /\ ret[c].rows[1].row \in entries

====
